---- MODULE Spec2Model ----
(***************************************************************************)
(* The sidecar supervisor of fiction-translator-v2 (src-tauri): the        *)
(* SidecarProcess of sidecar.rs, the JSON-RPC envelopes of ipc.rs, the two  *)
(* Tauri commands of commands.rs and the two tasks lib.rs spawns.           *)
(*                                                                         *)
(* Every task takes the AppState.sidecar mutex (state.rs) before it calls   *)
(* into the supervisor and holds the guard until its function returns.      *)
(* The stdout reader task of each spawned worker runs beside them and       *)
(* shares only the pending table and the connection flag.                   *)
(***************************************************************************)
EXTENDS Integers, Sequences, FiniteSets, TLC

\* ------------------------------------------------------------------ bounds
NumTasks == 2      \* concurrent tasks of the embedding application
MaxCalls == 2      \* request identifiers issued in one run
MaxStarts == 2     \* calls of SidecarProcess::start in one run

Tasks == 1..NumTasks
Ids == 1..MaxCalls
Workers == 1..MaxStarts

VARIABLES
    lock,        \* AppState.sidecar mutex: 0 (free) or the task holding it
    pc,          \* each task's position
    kind,        \* what each task runs: setup, rpc, status, close
    cur,         \* the identifier of the task's current call (0: none)
    ret,         \* what the task's last operation returned
    child,       \* SidecarProcess.child: 0 (None) or the worker
    stdin,       \* SidecarProcess.stdin: 0 (None) or the worker written to
    pending,     \* keys of the PendingRequests map
    chan,        \* the oneshot channel made by the call with each identifier
    connected,   \* SidecarProcess.connected
    REQUEST_ID,  \* ipc.rs REQUEST_ID
    issued,      \* identifiers returned by next_id, in issuance order
    outcome,     \* what the call with each identifier returned
    spawned,     \* number of workers spawned so far
    alive,       \* per worker: process running, stdout open
    killed,      \* the workers SidecarProcess::stop has killed
    reader,      \* per worker: stdout reader task none / reading / done
    received,    \* per worker: identifiers of the request lines on its stdin
    statusTrue,  \* count of sidecar:status {connected: true} events
    disc,        \* per worker: count of sidecar:status {connected: false}
    notes        \* the notification events forwarded to the application

vars == <<lock, pc, kind, cur, ret, child, stdin, pending, chan, connected,
          REQUEST_ID, issued, outcome, spawned, alive, killed, reader,
          received, statusTrue, disc, notes>>

taskVars == <<lock, pc, kind, cur, ret>>
procVars == <<child, stdin, spawned, alive, killed>>
evVars == <<statusTrue, disc, notes>>

\* ----------------------------------------------------------- ipc.rs codec
Absent == "absent"
Method == <<"progress", ".", "update">>

\* A stdout line: which members its JSON object carries. A line that is not
\* a JSON object carries none of them. The worker writes response-shaped
\* lines (result, error) and request-shaped lines (method, params), each
\* with or without the jsonrpc and id members.
JsonLines ==
    {l \in [blank : {FALSE}, jsonrpc : BOOLEAN, id : 0..MaxCalls,
            result : BOOLEAN, error : BOOLEAN, method : {Absent, Method},
            params : BOOLEAN] :
        IF l.method = Absent THEN ~l.params ELSE ~l.result /\ ~l.error}

BlankLine ==
    [blank |-> TRUE, jsonrpc |-> FALSE, id |-> 0, result |-> FALSE,
     error |-> FALSE, method |-> Absent, params |-> FALSE]

Lines == JsonLines \cup {BlankLine}

\* serde_json::from_str::<JsonRpcResponse>: jsonrpc is the one required field
ParsesAsResponse(line) == line.jsonrpc

\* serde_json::from_str::<JsonRpcNotification>: method is required
ParsesAsNotification(line) == line.method # Absent

\* response.id of a line that parses as a response, 0 for None: the line
\* is routed to the pending table only when this is Some(id)
RouteIdOrFirst(line) ==
    IF line.blank \/ ~ParsesAsResponse(line) THEN 0
    ELSE IF line.id = 0 THEN 1 ELSE line.id
RouteId(line) ==
    IF line.blank \/ ~ParsesAsResponse(line) THEN 0 ELSE line.id

\* notification.method.replace('.', ":")
EventName(m) == [i \in DOMAIN m |-> IF m[i] = "." THEN ":" ELSE m[i]]

\* the events app.emit publishes for a line that was not routed: one, when
\* the line parses as a notification and carries params
Forwarded(line) ==
    IF ~line.blank /\ ParsesAsNotification(line) /\ line.params
    THEN {[name |-> EventName(line.method), payload |-> "params"]}
    ELSE {}

\* the Result sent to the caller for a response line
ResponseResultPreferResult(line) ==
    IF line.result THEN "Ok" ELSE IF line.error THEN "Err" ELSE "Null"
ResponseResult(line) ==
    IF line.error THEN "Err" ELSE IF line.result THEN "Ok" ELSE "Null"

\* REQUEST_ID.fetch_add(1): the counter after the call
FetchAddLost(n) == n
FetchAdd(n) == n + 1

\* ------------------------------------------------------- oneshot channels
NoChan == [st |-> "none", val |-> "none", src |-> 0]
OpenChan == [st |-> "open", val |-> "none", src |-> 0]
RxDropped(c) == [st |-> "rxdropped", val |-> "none", src |-> 0]
Sent(v, id) == [st |-> "value", val |-> v, src |-> id]

\* sender.send(result): delivered unless the receiver is gone
SendAlways(c, v, id) == Sent(v, id)
Send(c, v, id) == IF c.st = "open" THEN Sent(v, id) ELSE c

\* pending.remove(&id)
PendingKeep(p, id) == p
PendingRemove(p, id) == p \ {id}

Init ==
    /\ lock = 0
    /\ pc = [t \in Tasks |-> "idle"]
    /\ kind = [t \in Tasks |-> "none"]
    /\ cur = [t \in Tasks |-> 0]
    /\ ret = [t \in Tasks |-> "none"]
    /\ child = 0
    /\ stdin = 0
    /\ pending = {}
    /\ chan = [i \in Ids |-> NoChan]
    /\ connected = FALSE
    /\ REQUEST_ID = 1
    /\ issued = <<>>
    /\ outcome = [i \in Ids |-> "none"]
    /\ spawned = 0
    /\ alive = [w \in Workers |-> FALSE]
    /\ killed = {}
    /\ reader = [w \in Workers |-> "none"]
    /\ received = [w \in Workers |-> {}]
    /\ statusTrue = 0
    /\ disc = [w \in Workers |-> 0]
    /\ notes = {}

\* --------------------------------------------------- tasks and the mutex
\* calls and starts the running tasks are still going to make
CallsAhead ==
    Cardinality({t \in Tasks : /\ kind[t] \in {"setup", "rpc"}
                               /\ pc[t] \in {"wantlock", "start", "start_connect", "call"}})
StartsAhead ==
    Cardinality({t \in Tasks : kind[t] = "setup" /\ pc[t] \in {"wantlock", "start"}})

\* The function of the task returns: its MutexGuard is dropped.
Return(t, r) ==
    /\ pc' = [pc EXCEPT ![t] = "idle"]
    /\ kind' = [kind EXCEPT ![t] = "none"]
    /\ cur' = [cur EXCEPT ![t] = 0]
    /\ ret' = [ret EXCEPT ![t] = r]
    /\ lock' = 0

\* The application invokes a command or spawns one of the lib.rs tasks.
Invoke(t, k) ==
    /\ pc[t] = "idle"
    /\ k \in {"setup", "rpc"} => Len(issued) + CallsAhead < MaxCalls
    /\ k = "setup" => spawned + StartsAhead < MaxStarts
    /\ pc' = [pc EXCEPT ![t] = "wantlock"]
    /\ kind' = [kind EXCEPT ![t] = k]
    /\ ret' = [ret EXCEPT ![t] = "none"]
    /\ cur' = [cur EXCEPT ![t] = 0]
    /\ UNCHANGED <<lock, pending, chan, connected, REQUEST_ID, issued, outcome,
                   received, procVars, reader, evVars>>

\* state.sidecar.lock().await
Acquire(t) ==
    /\ pc[t] = "wantlock"
    /\ lock = 0
    /\ lock' = t
    /\ pc' = [pc EXCEPT ![t] =
                CASE kind[t] = "setup" -> "start"
                  [] kind[t] = "rpc" -> "call"
                  [] kind[t] = "status" -> "status"
                  [] OTHER -> "stop"]
    /\ UNCHANGED <<kind, cur, ret, pending, chan, connected, REQUEST_ID, issued,
                   outcome, received, procVars, reader, evVars>>

\* ------------------------------------------------- SidecarProcess::start
\* a failing start that has set the connection flag before it returns
StartFailConnected(t) ==
    /\ pc[t] = "start"
    /\ Return(t, "StartErr")
    /\ connected' = TRUE
    /\ UNCHANGED <<pending, chan, REQUEST_ID, issued,
                   outcome, received, procVars, reader, evVars>>

\* spawn fails, or a pipe handle cannot be taken: Err, nothing stored
StartFail(t) ==
    /\ pc[t] = "start"
    /\ Return(t, "StartErr")
    /\ UNCHANGED <<pending, chan, connected, REQUEST_ID, issued,
                   outcome, received, procVars, reader, evVars>>

\* spawn succeeds: the handles are stored and the stdout reader is spawned
StartSpawn(t) ==
    /\ pc[t] = "start"
    /\ spawned < MaxStarts
    /\ LET w == spawned + 1 IN
        /\ spawned' = w
        /\ alive' = [alive EXCEPT ![w] = TRUE]
        /\ stdin' = w
        /\ child' = w
        /\ reader' = [reader EXCEPT ![w] = "reading"]
    /\ pc' = [pc EXCEPT ![t] = "start_connect"]
    /\ UNCHANGED <<lock, kind, cur, ret, pending, chan, connected, REQUEST_ID,
                   issued, outcome, received, killed, evVars>>

\* *self.connected.write().await = true; emit; Ok(()): lib.rs goes on to
\* the health check call under the same guard
StartConnected(t) ==
    /\ pc[t] = "start_connect"
    /\ connected' = TRUE
    /\ statusTrue' = statusTrue + 1
    /\ pc' = [pc EXCEPT ![t] = "call"]
    /\ UNCHANGED <<lock, kind, cur, ret, pending, chan, REQUEST_ID, issued,
                   outcome, received, procVars, reader, disc, notes>>

\* -------------------------------------------------- SidecarProcess::call
\* self.stdin.as_mut().ok_or(..)?; JsonRpcRequest::new; to_line
CallBegin(t) ==
    /\ pc[t] = "call"
    /\ IF stdin = 0
       THEN /\ Return(t, "NotConnected")
            /\ UNCHANGED <<REQUEST_ID, issued>>
       ELSE /\ Len(issued) < MaxCalls
            /\ cur' = [cur EXCEPT ![t] = REQUEST_ID]
            /\ issued' = Append(issued, REQUEST_ID)
            /\ REQUEST_ID' = FetchAdd(REQUEST_ID)
            /\ pc' = [pc EXCEPT ![t] = "register"]
            /\ UNCHANGED <<lock, kind, ret>>
    /\ UNCHANGED <<pending, chan, connected, outcome, received, procVars,
                   reader, evVars>>

\* call that goes on to the write without having inserted its entry
CallRegisterSkipped(t) ==
    /\ pc[t] = "register"
    /\ pc' = [pc EXCEPT ![t] = "write"]
    /\ UNCHANGED <<lock, kind, cur, ret, pending, chan, connected, REQUEST_ID,
                   issued, outcome, received, procVars, reader, evVars>>

\* oneshot::channel(); self.pending.lock().await.insert(id, tx)
CallRegister(t) ==
    /\ pc[t] = "register"
    /\ pending' = pending \cup {cur[t]}
    /\ chan' = [chan EXCEPT ![cur[t]] = OpenChan]
    /\ pc' = [pc EXCEPT ![t] = "write"]
    /\ UNCHANGED <<lock, kind, cur, ret, connected, REQUEST_ID, issued, outcome,
                   received, procVars, reader, evVars>>

\* write_all + flush: the line reaches the worker, or the pipe is broken
\* and the ? returns the error with the entry still in the table
CallWrite(t) ==
    /\ pc[t] = "write"
    /\ IF alive[stdin]
       THEN /\ received' = [received EXCEPT ![stdin] = @ \cup {cur[t]}]
            /\ pc' = [pc EXCEPT ![t] = "await"]
            /\ UNCHANGED <<lock, kind, cur, ret, chan, outcome>>
       ELSE /\ Return(t, "WriteFailed")
            /\ outcome' = [outcome EXCEPT ![cur[t]] = "WriteFailed"]
            /\ chan' = [chan EXCEPT ![cur[t]] = RxDropped(@)]
            /\ UNCHANGED received
    /\ UNCHANGED <<pending, connected, REQUEST_ID, issued, procVars,
                   reader, evVars>>

\* timeout(120 s, rx) is ready with the receiver's value: Ok(Ok(result)) or,
\* when the sender was dropped unsent, Ok(Err(_))
CallRecv(t) ==
    /\ pc[t] = "await"
    /\ chan[cur[t]].st \in {"value", "txdropped"}
    /\ LET r == IF chan[cur[t]].st = "value" THEN chan[cur[t]].val
                ELSE "ChannelClosed" IN
        /\ Return(t, r)
        /\ outcome' = [outcome EXCEPT ![cur[t]] = r]
        /\ chan' = [chan EXCEPT ![cur[t]] = RxDropped(@)]
    /\ UNCHANGED <<pending, connected, REQUEST_ID, issued,
                   received, procVars, reader, evVars>>

\* the wait without its bound: the timer never ends it
CallTimeoutNever(t) ==
    /\ pc[t] = "await"
    /\ FALSE
    /\ UNCHANGED vars

\* the 120 s elapse with nothing received: Err(Elapsed), the receiver is gone
CallTimeout(t) ==
    /\ pc[t] = "await"
    /\ chan[cur[t]].st = "open"
    /\ chan' = [chan EXCEPT ![cur[t]] = RxDropped(@)]
    /\ pc' = [pc EXCEPT ![t] = "expire"]
    /\ UNCHANGED <<lock, kind, cur, ret, pending, connected, REQUEST_ID, issued,
                   outcome, received, procVars, reader, evVars>>

\* self.pending.lock().await.remove(&id); Err("... timed out ...")
CallExpire(t) ==
    /\ pc[t] = "expire"
    /\ pending' = PendingRemove(pending, cur[t])
    /\ Return(t, "Timeout")
    /\ outcome' = [outcome EXCEPT ![cur[t]] = "Timeout"]
    /\ UNCHANGED <<chan, connected, REQUEST_ID, issued, received,
                   procVars, reader, evVars>>

\* --------------------------------------------------- SidecarProcess::stop
\* stop that leaves the write stream in place
StopKeepStdin(t) ==
    /\ pc[t] = "stop"
    /\ alive' = IF child # 0 THEN [alive EXCEPT ![child] = FALSE] ELSE alive
    /\ killed' = IF child # 0 /\ alive[child] THEN killed \cup {child} ELSE killed
    /\ child' = 0
    /\ stdin' = stdin
    /\ connected' = FALSE
    /\ Return(t, "Stopped")
    /\ UNCHANGED <<pending, chan, REQUEST_ID, issued, outcome,
                   received, spawned, reader, evVars>>

\* if let Some(child) = self.child.take() { kill }; stdin = None;
\* *connected = false
Stop(t) ==
    /\ pc[t] = "stop"
    /\ alive' = IF child # 0 THEN [alive EXCEPT ![child] = FALSE] ELSE alive
    /\ killed' = IF child # 0 /\ alive[child] THEN killed \cup {child} ELSE killed
    /\ child' = 0
    /\ stdin' = 0
    /\ connected' = FALSE
    /\ Return(t, "Stopped")
    /\ UNCHANGED <<pending, chan, REQUEST_ID, issued, outcome,
                   received, spawned, reader, evVars>>

\* ------------------------- sidecar_status / SidecarProcess::is_connected
StatusRead(t) ==
    /\ pc[t] = "status"
    /\ Return(t, IF connected THEN "true" ELSE "false")
    /\ UNCHANGED <<pending, chan, connected, REQUEST_ID, issued,
                   outcome, received, procVars, reader, evVars>>

\* ------------------------------------------------------------ the worker
\* the worker exits by itself: its stdout and stdin pipes close
WorkerExit(w) ==
    /\ alive[w]
    /\ alive' = [alive EXCEPT ![w] = FALSE]
    /\ UNCHANGED <<taskVars, child, stdin, spawned, killed, pending, chan,
                   connected, REQUEST_ID, issued, outcome, received, reader,
                   evVars>>

\* -------------------------------------------- the stdout reader of start
\* the body of the while loop for one line: a response with an id goes to
\* the pending table, any other line to the notification branch
Dispatch(line) ==
    /\ LET id == RouteId(line) IN
        IF id # 0
        THEN /\ IF id \in pending
                THEN /\ pending' = PendingRemove(pending, id)
                     /\ chan' = [chan EXCEPT ![id] = Send(@, ResponseResult(line), id)]
                ELSE UNCHANGED <<pending, chan>>
             /\ UNCHANGED notes
        ELSE /\ notes' = notes \cup Forwarded(line)
             /\ UNCHANGED <<pending, chan>>
    /\ UNCHANGED <<taskVars, procVars, connected, REQUEST_ID, issued, outcome,
                   received, reader, statusTrue, disc>>

\* one turn of the while loop on a line the worker wrote
ReaderLine(w, line) ==
    /\ reader[w] = "reading"
    /\ Dispatch(line)

\* after the while loop: the flag is cleared and the status event emitted
LoopExit(w) ==
    /\ reader' = [reader EXCEPT ![w] = "done"]
    /\ connected' = FALSE
    /\ disc' = [disc EXCEPT ![w] = @ + 1]
    /\ UNCHANGED <<taskVars, procVars, pending, chan, REQUEST_ID, issued,
                   outcome, received, statusTrue, notes>>

\* next_line() returns Ok(None): the worker has closed its stdout
ReaderEof(w) ==
    /\ reader[w] = "reading"
    /\ ~alive[w]
    /\ LoopExit(w)

\* next_line() returns Err (the worker wrote bytes that are not UTF-8):
\* while let Ok(Some(..)) ends the loop although stdout is still open
ReaderError(w) ==
    /\ reader[w] = "reading"
    /\ alive[w]
    /\ LoopExit(w)

Next ==
    \/ \E t \in Tasks : \E k \in {"setup", "rpc", "status", "close"} : Invoke(t, k)
    \/ \E t \in Tasks : Acquire(t)
    \/ \E t \in Tasks : StartFail(t)
    \/ \E t \in Tasks : StartSpawn(t)
    \/ \E t \in Tasks : StartConnected(t)
    \/ \E t \in Tasks : CallBegin(t)
    \/ \E t \in Tasks : CallRegister(t)
    \/ \E t \in Tasks : CallWrite(t)
    \/ \E t \in Tasks : CallRecv(t)
    \/ \E t \in Tasks : CallTimeout(t)
    \/ \E t \in Tasks : CallExpire(t)
    \/ \E t \in Tasks : Stop(t)
    \/ \E t \in Tasks : StatusRead(t)
    \/ \E w \in Workers : WorkerExit(w)
    \/ \E w \in Workers : \E line \in Lines : ReaderLine(w, line)
    \/ \E w \in Workers : ReaderEof(w)
    \/ \E w \in Workers : ReaderError(w)

Spec == Init /\ [][Next]_vars

\* the timer of tokio::time::timeout fires and a ready task is polled
CallProgress(t) == CallRecv(t) \/ CallTimeout(t) \/ CallExpire(t)

FairSpec == Spec /\ \A t \in Tasks : WF_vars(CallProgress(t))

TypeOK ==
    /\ lock \in 0..NumTasks
    /\ child \in 0..MaxStarts
    /\ stdin \in 0..MaxStarts
    /\ pending \subseteq Ids
    /\ connected \in BOOLEAN
    /\ spawned \in 0..MaxStarts
    /\ killed \subseteq Workers

\* ------------------------------------------------------------ properties
\* the call of identifier i has timed out or is about to expire its entry
TimedOut(i) ==
    \/ outcome[i] = "Timeout"
    \/ \E t \in Tasks : pc[t] = "expire" /\ cur[t] = i

\* some stdout reader is in its loop
Reading == \E w \in Workers : reader[w] = "reading"

\* the step changes the pending table, a channel or an outcome
Resolving == pending' # pending \/ chan' # chan \/ outcome' # outcome

\* C1: the supervisor lock is held only for the register+write step of a
\* call: a task that awaits its response (or expires its entry) no longer
\* holds the lock, so that a second call can be registered meanwhile.
C1_LockOnlyForRegisterWrite ==
    \A t \in Tasks : pc[t] \in {"await", "expire"} => lock # t

\* C2: when the worker a call was written to has exited and its stdout
\* reader has seen end-of-stream, the call's pending entry has been
\* released: the waiting caller's channel is no longer open (it holds a
\* value or is closed).
C2_ClosureReleasesPending ==
    \A t \in Tasks :
        (/\ pc[t] = "await"
         /\ stdin # 0
         /\ ~alive[stdin]
         /\ reader[stdin] = "done")
            => chan[cur[t]].st # "open"

\* C3: once the latest worker has exited, its reader has observed
\* end-of-stream and start has returned, the connection state is false.
C3_ExitedWorkerDisconnected ==
    (/\ spawned # 0
     /\ ~alive[spawned]
     /\ reader[spawned] = "done"
     /\ \A t \in Tasks : pc[t] # "start_connect")
        => ~connected

\* C4: a call begun with no running worker (no write stream, or the worker
\* has exited and the reader has cleared the connection state) returns
\* NotConnected at once: it draws no identifier and goes on to no
\* register, write or wait step.
C4_CallRequiresRunning ==
    [][\A t \in Tasks :
          (CallBegin(t) /\ (stdin = 0 \/ (~alive[stdin] /\ ~connected)))
              => (ret'[t] = "NotConnected" /\ pc'[t] = "idle"
                  /\ issued' = issued)]_vars

\* C5: a call that timed out has no entry in the pending table, holds no
\* delivered value and keeps Timeout as its one outcome; a response line
\* for its identifier, after the timeout or racing with it, delivers
\* nothing: it changes no channel, no outcome and no task, at most it
\* takes the entry of that identifier out of the table.
C5_TimeoutThenLateResponse ==
    /\ [](\A i \in Ids :
            outcome[i] = "Timeout" => (i \notin pending /\ chan[i].st # "value"))
    /\ [][\A i \in Ids : outcome[i] = "Timeout" => outcome'[i] = "Timeout"]_vars
    /\ [][(Resolving /\ Reading)
            => \A line \in Lines :
                  (RouteId(line) # 0 /\ TimedOut(line.id) /\ Dispatch(line))
                      => /\ chan' = chan
                         /\ outcome' = outcome
                         /\ ret' = ret
                         /\ pending' = pending \ {line.id}]_vars

\* C5 witness: a response raced with the timeout: the call is about to
\* expire its entry and the reader has already taken it.
C5_Witness ==
    \E t \in Tasks : pc[t] = "expire" /\ cur[t] \notin pending

\* C6: a pending entry is fulfilled at most once and only by a response
\* carrying its own identifier: a channel receives a value only while open,
\* together with the removal of its entry, and the value is the one of a
\* response with that identifier; a response line leaves every other entry
\* and channel alone and changes nothing when its identifier has no entry;
\* a delivered value or a returned outcome is never replaced.
C6_FulfilledAtMostOnce ==
    /\ [](\A i \in Ids : chan[i].st = "value" => chan[i].src = i)
    /\ [][\A i \in Ids :
            /\ (chan'[i].st = "value" /\ chan'[i] # chan[i])
                  => (chan[i].st = "open" /\ i \in pending /\ i \notin pending')
            /\ (chan[i].st = "value" /\ chan'[i] # chan[i])
                  => chan'[i].st = "rxdropped"
            /\ outcome[i] # "none" => outcome'[i] = outcome[i]]_vars
    /\ [][(Resolving /\ Reading)
            => \A line \in Lines :
                  Dispatch(line)
                      => /\ \A i \in Ids \ {line.id} :
                              /\ chan'[i] = chan[i]
                              /\ i \in pending' <=> i \in pending
                         /\ line.id \notin pending
                              => UNCHANGED <<pending, chan>>
                         /\ line.id \notin pending'
                         /\ (line.id \in Ids /\ chan[line.id].st = "open")
                              => chan'[line.id] =
                                   Sent(ResponseResult(line), line.id)]_vars

\* C6 witness: a waiting call whose entry a first response has removed and
\* completed, so that a duplicate of that response finds no entry.
C6_Witness ==
    \E t \in Tasks :
        /\ pc[t] = "await"
        /\ cur[t] \notin pending
        /\ chan[cur[t]].st = "value"

\* C7: a stdout line without an id field leaves the pending table, every
\* channel and every outcome unchanged, whatever its other fields are.
C7_NoIdNeverResolves ==
    [][(Resolving /\ Reading)
          => \A line \in Lines : line.id = 0 => ~Dispatch(line)]_vars

\* C7 witness: an id-less line (a notification) has been forwarded by a
\* reader and a call is waiting on an entry that is still pending.
C7_Witness ==
    /\ notes # {}
    /\ \E t \in Tasks :
          pc[t] = "await" /\ cur[t] \in pending /\ chan[cur[t]].st = "open"

\* C8: the identifiers issued so far start at 1 and are strictly increasing
\* in issuance order (hence pairwise distinct); two tasks never hold the
\* same identifier.
C8_IdsStrictlyIncreasing ==
    /\ issued # <<>> => issued[1] = 1
    /\ \A i, j \in DOMAIN issued : i < j => issued[i] < issued[j]
    /\ \A s, t \in Tasks : (s # t /\ cur[s] # 0) => cur[s] # cur[t]

\* C8 witness: two identifiers have been issued, the first registered entry
\* is still in the table (leaked by a failed write) beside the second.
C8_Witness ==
    /\ Len(issued) >= 2
    /\ Cardinality(pending) >= 2

\* C9: under fairness of the timer and of the polling of a ready call, a
\* call that has written its request returns, and with a result, a worker
\* error, ChannelClosed or Timeout.
C9_CallTerminates ==
    \A t \in Tasks :
        (pc[t] = "await")
            ~> (pc[t] = "idle"
                /\ ret[t] \in {"Ok", "Null", "Err", "ChannelClosed", "Timeout"})

\* C9 witness: the worker a call was written to has exited and its reader
\* has seen end-of-stream, no response was delivered, and the timer has
\* ended the wait: the call is on its way out with Timeout.
C9_Witness ==
    \E t \in Tasks :
        /\ pc[t] = "expire"
        /\ stdin # 0
        /\ ~alive[stdin]
        /\ reader[stdin] = "done"
        /\ cur[t] \in received[stdin]
        /\ cur[t] \in pending

\* C10: a status query never waits for the supervisor lock while the task
\* holding the lock is a call suspended on its response or timeout.
C10_StatusNeverBlockedByCall ==
    \A s, t \in Tasks :
        ~(/\ kind[s] = "status" /\ pc[s] = "wantlock"
          /\ lock = t /\ pc[t] = "await")

\* the line the stub worker echoes for the request of identifier i:
\* {"id": i, "result": <value>} and no other member
EchoLine(i) ==
    [blank |-> FALSE, jsonrpc |-> FALSE, id |-> i, result |-> TRUE,
     error |-> FALSE, method |-> Absent, params |-> FALSE]

\* C11: while a call waits on its registered entry and the reader of the
\* worker it wrote to is in its loop, the line {"id": <id>, "result": <value>}
\* with the call's identifier is classified as a response for that identifier
\* and the reader's turn on it delivers Ok(<value>) to the call.
C11_EchoLineResolves ==
    \A t \in Tasks :
        (/\ pc[t] = "await"
         /\ cur[t] \in pending
         /\ chan[cur[t]].st = "open"
         /\ stdin # 0
         /\ cur[t] \in received[stdin]
         /\ reader[stdin] = "reading")
            => /\ RouteId(EchoLine(cur[t])) = cur[t]
               /\ ENABLED (/\ ReaderLine(stdin, EchoLine(cur[t]))
                           /\ chan'[cur[t]] = Sent("Ok", cur[t]))

\* C12: while a stdout reader is in its loop, every line with a method and
\* no id, with or without params, is republished by the reader's turn on
\* it: the event named progress:update with the line's parameters as payload
\* (null when it has none) is among the forwarded events afterwards, and no
\* other event is added, whatever the pending table holds.
C12_NotificationRepublished ==
    \A w \in Workers :
        reader[w] = "reading"
            => \A line \in Lines :
                  (~line.blank /\ line.method # Absent /\ line.id = 0)
                      => ENABLED
                           (/\ ReaderLine(w, line)
                            /\ notes' = notes \cup
                                 {[name |-> <<"progress", ":", "update">>,
                                   payload |-> IF line.params THEN "params"
                                               ELSE "null"]})

\* C13: the outcome a matching response delivers is decided by its fields:
\* Err when it has an error member (with or without a result), Ok(result)
\* when it has a result and no error, Ok(null) when it has neither; and the
\* call that receives the delivered value returns exactly that value.
C13_OutcomeByFields ==
    /\ [][(Resolving /\ Reading)
            => \A line \in Lines :
                  (/\ RouteId(line) # 0
                   /\ line.id \in pending
                   /\ chan[line.id].st = "open"
                   /\ Dispatch(line))
                      => /\ chan'[line.id].st = "value"
                         /\ line.error => chan'[line.id].val = "Err"
                         /\ (line.result /\ ~line.error)
                               => chan'[line.id].val = "Ok"
                         /\ (~line.result /\ ~line.error)
                               => chan'[line.id].val = "Null"]_vars
    /\ [][\A t \in Tasks :
            (pc[t] = "await" /\ pc'[t] = "idle" /\ chan[cur[t]].st = "value")
                => /\ ret'[t] = chan[cur[t]].val
                   /\ outcome'[cur[t]] = chan[cur[t]].val]_vars

\* C13 witness: one call has returned a worker error and another Ok(null).
C13_Witness ==
    \E i, j \in Ids : outcome[i] = "Err" /\ outcome[j] = "Null"

\* C14: stop is idempotent. A stop leaves no process handle, no write
\* stream and the connection state false, and they stay so until the next
\* start; a stop of a supervisor that is already stopped (or was never
\* started) changes none of its fields, kills nothing and emits nothing; a
\* call begun with no write stream returns NotConnected at once, drawing no
\* identifier and registering nothing.
C14_StopIdempotent ==
    /\ [](stdin = 0 => (child = 0 /\ ~connected))
    /\ [][\A t \in Tasks :
            (pc[t] = "stop" /\ pc'[t] = "idle")
                => /\ child' = 0 /\ stdin' = 0 /\ ~connected'
                   /\ ret'[t] = "Stopped"
                   /\ (child = 0 /\ stdin = 0 /\ ~connected)
                        => UNCHANGED <<child, stdin, connected, pending, chan,
                                       alive, killed, reader, spawned,
                                       REQUEST_ID, evVars>>]_vars
    /\ [][\A t \in Tasks :
            (pc[t] = "call" /\ stdin = 0 /\ pc'[t] # "call")
                => /\ ret'[t] = "NotConnected"
                   /\ pc'[t] = "idle"
                   /\ UNCHANGED <<issued, pending, chan, REQUEST_ID>>]_vars

\* C14 witness: a stop has killed a worker and both tasks have returned
\* from a stop, one of them on a supervisor that held no process handle.
C14_Witness ==
    /\ killed # {}
    /\ stdin = 0
    /\ \A t \in Tasks : ret[t] = "Stopped"

\* C15: for each worker a start has spawned, the disconnection event is
\* emitted at most once, by the reader when it leaves its loop, and only
\* after the worker's stdout has closed (the worker exited by itself or was
\* killed by stop): it has never been emitted for a worker whose stdout is
\* still open.
C15_DisconnectOnceAtEof ==
    \A w \in Workers :
        /\ disc[w] <= 1
        /\ disc[w] = 1 <=> reader[w] = "done"
        /\ disc[w] = 1 => (w <= spawned /\ ~alive[w])

\* C16: a supervisor has at most one live worker at a time: no two workers
\* it has spawned are running together, each with its stdout reader in its
\* loop on the shared pending table and connection flag.
C16_AtMostOneLiveWorker ==
    \A v, w \in Workers :
        (/\ alive[v] /\ reader[v] = "reading"
         /\ alive[w] /\ reader[w] = "reading")
            => v = w

\* C17: a start that fails returns an error and changes nothing of the
\* supervisor: process handle, write stream, pending table and connection
\* state are as before, no worker and no reader task exist that did not
\* before, and no event is emitted; a supervisor on which no start has
\* succeeded is stopped: no handle, no write stream, not connected, no
\* reader, no connectivity event.
C17_FailedStartChangesNothing ==
    /\ [](spawned = 0
            => /\ child = 0 /\ stdin = 0 /\ ~connected /\ statusTrue = 0
               /\ \A w \in Workers : reader[w] = "none" /\ ~alive[w])
    /\ [][\A t \in Tasks :
            (pc[t] = "start" /\ pc'[t] = "idle")
                => /\ ret'[t] = "StartErr"
                   /\ UNCHANGED <<child, stdin, pending, chan, connected,
                                  spawned, alive, killed, reader,
                                  statusTrue, disc, notes>>]_vars

\* C17 witness: a start has failed on a supervisor that never had a worker.
C17_Witness ==
    \E t \in Tasks : ret[t] = "StartErr" /\ spawned = 0 /\ lock = 0

\* C18: no pending entry outlives its call: the identifier of a call that
\* has returned, with whatever outcome, has no entry in the pending table,
\* and the table is empty whenever no call is between its registration and
\* its return.
C18_NoEntryOutlivesCall ==
    /\ \A i \in Ids : outcome[i] # "none" => i \notin pending
    /\ (\A t \in Tasks : pc[t] \notin {"register", "write", "await", "expire"})
          => pending = {}

\* C19: after a stop followed by a successful start the connection state
\* reflects the new worker: when every earlier worker was killed by stop,
\* start has returned for the current worker, that worker is running with
\* its stdout open and its reader in its loop, and no stop has been called
\* since (the write stream is still the one of that worker), the connection
\* state is true.
C19_RestartKeepsConnected ==
    \A w \in Workers :
        (/\ w > 1
         /\ stdin = w /\ child = w
         /\ \A v \in 1..(w - 1) : v \in killed
         /\ alive[w]
         /\ reader[w] = "reading"
         /\ \A t \in Tasks : pc[t] # "start_connect")
            => connected

\* a well-formed response to the request of identifier i
ResponseLine(i) ==
    [blank |-> FALSE, jsonrpc |-> TRUE, id |-> i, result |-> TRUE,
     error |-> FALSE, method |-> Absent, params |-> FALSE]

\* C20: the entry of a call is inserted before its request line is written:
\* a call about to write has its channel registered and its request is on
\* no worker's stdin yet; once a worker has the request, the identifier is
\* in the pending table unless a response has already been delivered for it
\* or the call has timed out or returned; and while the call waits with
\* nothing delivered, the turn of the worker's reader on a response to it
\* finds the entry and delivers the result.
C20_RegisteredBeforeWrite ==
    /\ \A t \in Tasks :
          pc[t] \in {"register", "write"}
              => /\ \A w \in Workers : cur[t] \notin received[w]
                 /\ pc[t] = "write" => chan[cur[t]].st # "none"
    /\ \A i \in Ids : \A w \in Workers :
          i \in received[w]
              => /\ chan[i].st # "none"
                 /\ i \notin pending
                      => (chan[i].st = "value" \/ outcome[i] # "none"
                          \/ TimedOut(i))
    /\ \A t \in Tasks : \A w \in Workers :
          (/\ pc[t] = "await"
           /\ chan[cur[t]].st = "open"
           /\ cur[t] \in received[w]
           /\ reader[w] = "reading")
              => ENABLED (/\ ReaderLine(w, ResponseLine(cur[t]))
                          /\ cur[t] \in pending
                          /\ cur[t] \notin pending'
                          /\ chan'[cur[t]] = Sent("Ok", cur[t]))

\* C20 witness: a worker was given a request and the response to it has
\* been delivered and returned by the call.
C20_Witness ==
    \E i \in Ids : \E w \in Workers :
        i \in received[w] /\ outcome[i] = "Ok" /\ reader[w] = "reading"

====
